---- MODULE Spec2Model ----
(***************************************************************************)
(* A model of safe_exit (src/safe_exit/__init__.py): the process-wide      *)
(* registry of exit functions, the signal / console-control dispatcher     *)
(* that drains it, and safe_kill, run by a second process against the      *)
(* process that owns the registry.                                         *)
(*                                                                         *)
(* The registry is the module-level list _exit_funcs.  Python lists are    *)
(* objects: _call_exit_funcs iterates over the list object that the global *)
(* names when its for loop starts and rebinds the global to a fresh list   *)
(* when the loop is over, while register and unregister change the list    *)
(* the global names at the time in place.  The model therefore keeps a     *)
(* heap of list objects and the global as an index into it.                *)
(*                                                                         *)
(* The functions of the module run line by line: a signal handler runs on  *)
(* the main thread between two lines of whatever the main thread is doing, *)
(* and on nt the console-control callback runs on a thread of its own,     *)
(* beside the main thread.  The main thread is a stack of frames, the      *)
(* callback's thread is one frame: that of _call_exit_funcs, with the call *)
(* of unregister or register that the exit function it invoked is making.  *)
(***************************************************************************)
EXTENDS Integers, Sequences, FiniteSets, TLC

(* ------------------------------ bounds -------------------------------- *)

\* register() calls made by the program in one run
MaxRegs == 2
\* signals and console events the environment delivers to the process in one
\* run
MaxSignals == 1

(* ------------------------- program constants -------------------------- *)

SIGHUP == 1
SIGINT == 2
SIGQUIT == 3
SIGTERM == 15
SIGBREAK == 21

CTRL_C_EVENT == 0
CTRL_BREAK_EVENT == 1
CTRL_CLOSE_EVENT == 2
CTRL_LOGOFF_EVENT == 5
CTRL_SHUTDOWN_EVENT == 6

\* kill_signal=None
NoSignal == -1

CONFIG_CTRL_ALL == {"CTRL_CLOSE", "CTRL_SHUTDOWN", "CTRL_LOGOFF"}
DEFAULT_CONFIG == {"SIGQUIT", "SIGHUP", "SIGBREAK"} \cup CONFIG_CTRL_ALL

(* ------------------------------ inputs -------------------------------- *)

\* the callables a program registers; g raises an Exception when called
Funcs == {"f", "g"}
Raising == {"g"}
\* a callable that calls sys.exit(2) when called: it raises SystemExit, which
\* is not an Exception
Exiting == {"x"}
ExitFuncCode == 2
\* the program's k-th call of register is register(func, k): every entry has
\* arguments of its own, which tell the entries of one callable apart
ArgsOf(k) == k
\* the flag sets passed to config()
ConfigInputs ==
  {{}, DEFAULT_CONFIG, {"SIGQUIT"},
   {"CTRL_CLOSE", "AUTO_CREATE_CONSOLE", "FORCE_HIDE_CONSOLE"}}
\* the status of an ordinary interpreter exit: sys.exit(3), which tells the
\* program's own exit from the sys.exit(0) of _signal_handler
ExitCodes == {3}
\* the signals another process or the terminal can deliver
Deliverable(os) ==
  IF os = "posix" THEN {SIGINT, SIGTERM, SIGQUIT, SIGHUP} ELSE {SIGINT, SIGBREAK}

VARIABLES
  os_name,        \* os.name: "posix" or "nt"
  _registered,    \* the module global _registered
  handlers,       \* the signals whose handler is _signal_handler
  ctrl_handlers,  \* the events lists of the console-control handlers installed
  _ctrl_handler,  \* the module global _ctrl_handler: the callback object it names
  freed,          \* the callback objects the global named before and that are freed
  console,        \* nt: the console of the process: "none", "shown", "hidden"
                  \* (by config), "allocated-shown" (allocated by config and
                  \* not hidden yet) or "allocated" (allocated and hidden)
  streams,        \* nt: those of sys.stdin, sys.stdout, sys.stderr that config
                  \* has bound to the console it allocated
  heap,           \* the list objects ever bound to _exit_funcs
  _exit_funcs,    \* the list the module global _exit_funcs names (index in heap)
  nreg,           \* register() calls made by the program so far
  pc,             \* main thread: "run", "finalize" (atexit running), "terminated"
  stack,          \* main thread's frames: config, register, unregister,
                  \* _signal_handler and _call_exit_funcs
  ctrl,           \* the frame of the console-control callback's thread (nt):
                  \* the loop of _call_exit_funcs and, in func, args, line and
                  \* idx, the call of unregister or register it is inside
  exit_code,      \* the interpreter's exit status once it finalizes
  exit_how,       \* how the process ended
  fin_by,         \* what made the interpreter finalize
  calls,          \* the main thread's invocations of exit functions, in order
  ctrl_calls,     \* the callback thread's invocations of exit functions, in order
  propagated,     \* an exception of an exit function left _call_exit_funcs
  nsig,           \* signals and console events the environment delivered so far
  ntrig,          \* termination triggers that reached the dispatcher
  snap,           \* the registry when the first trigger fired
  hexit,          \* what the last sys.exit of _signal_handler saw
  cleared,        \* some call of _call_exit_funcs has run to its end
  late_calls,     \* invocations by calls of _call_exit_funcs that began after that
  late_regs,      \* an entry was appended to the registry after that
  unreg,          \* the unregister call of the program the main thread is in
  last_call,      \* the call of the module the program has just seen return
                  \* or raise
  k_pc,           \* the process calling safe_kill: its place in safe_kill
  k_args,         \* safe_kill's arguments
  k_exc,          \* the exception raised inside safe_kill's try block
  k_hist,         \* what safe_kill has done so far
  reaped          \* posix: the terminated process was waited for, its pid is free

win == <<console, streams>>
cfg == <<os_name, _registered, handlers, ctrl_handlers, _ctrl_handler, freed,
         console, streams>>
reg == <<heap, _exit_funcs, nreg>>
hist == <<nsig, ntrig, snap, hexit, cleared, late_calls, late_regs, unreg,
          last_call>>
killer == <<k_pc, k_args, k_exc, k_hist, reaped>>

vars == <<os_name, _registered, handlers, ctrl_handlers, _ctrl_handler, freed,
          console, streams, heap, _exit_funcs, nreg, pc, stack, ctrl, exit_code,
          exit_how, fin_by, calls, ctrl_calls, propagated, nsig, ntrig, snap,
          hexit, cleared, late_calls, late_regs, unreg, last_call, k_pc,
          k_args, k_exc, k_hist, reaped>>

(* ------------------------------ helpers ------------------------------- *)

Registry == heap[_exit_funcs]
Alive == pc # "terminated"
\* the main thread is in the program's own code, from where the program calls
\* config, register and unregister and from where it exits
Idle == pc = "run" /\ stack = <<>>

NoFrame ==
  [kind |-> "none", lst |-> 0, i |-> 0, late |-> FALSE, func |-> "none",
   args |-> 0, line |-> 0, idx |-> 0, flag |-> {}, hwnd |-> FALSE]
\* a frame of _call_exit_funcs: the list it iterates and the loop's position
\* (late: it began after another call had run to its end)
DrainFrame(l) ==
  [NoFrame EXCEPT !.kind = "drain", !.lst = l, !.i = 1, !.late = cleared]
\* a frame of _signal_handler; i = 1 once its call of _call_exit_funcs returned
HandlerFrame == [NoFrame EXCEPT !.kind = "handler"]
\* a frame of register(func, args) and the line it is at: 235 while its call
\* of config(DEFAULT_CONFIG) runs, 236 before the append
RegisterFrame(func, args, line) ==
  [NoFrame EXCEPT !.kind = "register", !.func = func, !.args = args,
                  !.line = line]
\* a frame of unregister(func): the line it is at and idx, counted from 1
UnregisterFrame(func, line, idx) ==
  [NoFrame EXCEPT !.kind = "unregister", !.func = func, !.line = line,
                  !.idx = idx]
\* a frame of config(flag), also while it is inside _register_signals(flag)
\* or _register_ctrl_handler(events): the line it is at, and its local hwnd
\* (whether GetConsoleWindow returned a window)
ConfigFrame(flag, line) ==
  [NoFrame EXCEPT !.kind = "config", !.flag = flag, !.line = line]

NoCall == [func |-> "none", before |-> <<>>]
\* a call of config(flag), register or unregister by the program that is
\* over: the exception it raised and the line that raised it, or what it
\* returned
ApiCall(op, flag, exc, line, ret) ==
  [op |-> op, flag |-> flag, exc |-> exc, line |-> line, ret |-> ret]
NoApiCall == ApiCall("none", {}, "none", 0, "none")
\* _ctrl_handler = None
NoHandler == [events |-> {}, installed |-> FALSE]
\* the events lists of the handlers Windows still holds and whose callback
\* object is freed
dangling == {c.events : c \in {x \in freed : x.installed}}

Top == stack[Len(stack)]
Pop(s) == SubSeq(s, 1, Len(s) - 1)
\* the frame on top of the main thread is a frame of kind at line
At(kind, line) ==
  Alive /\ stack # <<>> /\ Top.kind = kind /\ Top.line = line
\* the main thread goes on to line in the frame on top
Goto(line) == [stack EXCEPT ![Len(stack)].line = line]

\* the main thread is inside unregister
InUnregister == stack # <<>> /\ Top.kind = "unregister"

\* the first trigger records the registry it finds
Trigger ==
  /\ ntrig' = ntrig + 1
  /\ snap' = IF ntrig = 0 THEN Registry ELSE snap
  /\ last_call' = NoApiCall

NoTrigger ==
  /\ UNCHANGED <<ntrig, snap>>
  /\ last_call' = NoApiCall

\* the interpreter starts to finalize with status code: atexit calls
\* _call_exit_funcs, which starts to iterate the list the global names
Finalize(code, by) ==
  /\ pc' = "finalize"
  /\ exit_code' = code
  /\ fin_by' = by
  /\ stack' = <<DrainFrame(_exit_funcs)>>

\* except Exception: the exceptions the loop body of _call_exit_funcs catches
Catches(exc) == exc \in {"Exception", "OSError", "IndexError"}

\* the frames left on the main thread when exception exc is raised in the
\* frame on top of s: the frames of the module's functions are left one by
\* one, down to a loop of _call_exit_funcs whose except clause catches exc
RECURSIVE Unwound(_, _)
Unwound(s, exc) ==
  IF s = <<>> THEN <<>>
  ELSE IF s[Len(s)].kind = "drain" /\ Catches(exc) THEN s
  ELSE Unwound(Pop(s), exc)

\* config, register or unregister raises exc at line: the loop of
\* _call_exit_funcs that called the exit function that made the call catches
\* it and goes on; a call made by the program raises it to the program
Raise(exc, line) ==
  /\ stack' = Unwound(stack, exc)
  /\ last_call' = IF Unwound(stack, exc) = <<>>
                  THEN ApiCall(stack[1].kind, stack[1].flag, exc, line, "none")
                  ELSE last_call

\* SystemExit or KeyboardInterrupt is raised on the main thread: no frame
\* catches it.  It leaves the program and the interpreter finalizes with
\* status code; or it leaves the atexit callback, where it is printed and
\* dropped, and the exit status stays
Unwind(code, by) ==
  IF pc = "run"
  THEN Finalize(code, by)
  ELSE /\ stack' = <<>>
       /\ UNCHANGED <<pc, exit_code, fin_by>>

(* ------------------------------ config -------------------------------- *)

\* (a variant without the tests of os.name)
SignalsFor_any_platform(os, flag) ==
  {SIGINT, SIGTERM}
    \cup (IF "SIGQUIT" \in flag THEN {SIGQUIT} ELSE {})
    \cup (IF "SIGHUP" \in flag THEN {SIGHUP} ELSE {})
    \cup (IF "SIGBREAK" \in flag THEN {SIGBREAK} ELSE {})

\* the signals _register_signals(flag) passes to signal.signal
SignalsFor(os, flag) ==
  {SIGINT, SIGTERM}
    \cup (IF os = "posix" /\ "SIGQUIT" \in flag THEN {SIGQUIT} ELSE {})
    \cup (IF os = "posix" /\ "SIGHUP" \in flag THEN {SIGHUP} ELSE {})
    \cup (IF os = "nt" /\ "SIGBREAK" \in flag THEN {SIGBREAK} ELSE {})

\* the events list _register_signals(flag) builds on nt
EventsFor(flag) ==
  (IF "CTRL_CLOSE" \in flag THEN {CTRL_CLOSE_EVENT} ELSE {})
    \cup (IF "CTRL_LOGOFF" \in flag THEN {CTRL_LOGOFF_EVENT} ELSE {})
    \cup (IF "CTRL_SHUTDOWN" \in flag THEN {CTRL_SHUTDOWN_EVENT} ELSE {})

\* the lines of config, _register_signals and _register_ctrl_handler that
\* change the state of the process or of the call, in the order they run:
\* GetConsoleWindow, ShowWindow, AllocConsole, the three calls of open,
\* GetConsoleWindow, ShowWindow; the calls of signal.signal, the binding of
\* _ctrl_handler, SetConsoleCtrlHandler, _registered = True
ConfigLines ==
  <<213, 215, 217, 218, 219, 220, 221, 222, 97, 98, 100, 101, 103, 83, 85, 115>>
\* the signal that the call of signal.signal at line installs
LineSignal(line) ==
  CASE line = 97 -> SIGINT
    [] line = 98 -> SIGTERM
    [] line = 100 -> SIGQUIT
    [] line = 101 -> SIGHUP
    [] line = 103 -> SIGBREAK
\* the stream that line binds to the console
LineStream(line) ==
  CASE line = 218 -> "stdin"
    [] line = 219 -> "stdout"
    [] line = 220 -> "stderr"
\* config(flag) runs line: the tests of os.name (lines 209, 99, 102), of hwnd
\* and the flags (lines 214 and 216, hwnd as GetConsoleWindow returned it at
\* line 213), of the flags and of len(events) let it through
Runs(flag, hwnd, line) ==
  IF line = 213
  THEN os_name = "nt"
  ELSE IF line = 215
  THEN os_name = "nt" /\ hwnd /\ "FORCE_HIDE_CONSOLE" \in flag
  ELSE IF line \in {217, 218, 219, 220, 221, 222}
  THEN os_name = "nt" /\ ~hwnd /\ "AUTO_CREATE_CONSOLE" \in flag
  ELSE IF line \in {97, 98, 100, 101, 103}
  THEN LineSignal(line) \in SignalsFor(os_name, flag)
  ELSE IF line \in {83, 85}
  THEN os_name = "nt" /\ EventsFor(flag) # {}
  ELSE TRUE
\* the first line from the k-th on that config(flag) runs
RECURSIVE LineFrom(_, _, _)
LineFrom(flag, hwnd, k) ==
  IF Runs(flag, hwnd, ConfigLines[k])
  THEN ConfigLines[k]
  ELSE LineFrom(flag, hwnd, k + 1)
\* the line that config(flag) runs after line
NextLine(flag, hwnd, line) ==
  LineFrom(flag, hwnd,
           1 + CHOOSE k \in 1..Len(ConfigLines) : ConfigLines[k] = line)
\* the first line that config(flag) runs
FirstLine(flag) == LineFrom(flag, FALSE, 1)

\* (a variant that returns at once when the dispatcher is installed)
config_first_wins(flag) ==
  /\ Idle
  /\ IF _registered
     THEN /\ last_call' = ApiCall("config", flag, "none", 0, "none")
          /\ UNCHANGED stack
     ELSE /\ last_call' = NoApiCall
          /\ stack' = <<ConfigFrame(flag, FirstLine(flag))>>
  /\ UNCHANGED <<cfg, reg, pc, ctrl, exit_code, exit_how, fin_by, calls,
                 ctrl_calls, propagated, nsig, ntrig, snap, hexit, cleared,
                 late_calls, late_regs, unreg, killer>>

\* config(flag), called by the program: the call begins, at line 213 on nt
\* and at the first line of _register_signals on posix
config(flag) ==
  /\ Idle
  /\ last_call' = NoApiCall
  /\ stack' = <<ConfigFrame(flag, FirstLine(flag))>>
  /\ UNCHANGED <<cfg, reg, pc, ctrl, exit_code, exit_how, fin_by, calls,
                 ctrl_calls, propagated, nsig, ntrig, snap, hexit, cleared,
                 late_calls, late_regs, unreg, killer>>

\* lines 213 and 221, hwnd = kernel32.GetConsoleWindow(): at line 213 the
\* tests of lines 214 and 216 follow; line 221 is inside the block of line
\* 216 and line 222 follows
GetConsoleWindow ==
  /\ Alive
  /\ stack # <<>>
  /\ Top.kind = "config"
  /\ Top.line \in {213, 221}
  /\ stack' = [stack EXCEPT
                 ![Len(stack)].hwnd = (console # "none"),
                 ![Len(stack)].line =
                    IF Top.line = 221
                    THEN 222
                    ELSE NextLine(Top.flag, console # "none", 213)]
  /\ UNCHANGED <<cfg, reg, pc, ctrl, exit_code, exit_how, fin_by, calls,
                 ctrl_calls, propagated, hist, killer>>

\* lines 215 and 222, user32.ShowWindow(hwnd, 0): the console window is
\* hidden
ShowWindow ==
  /\ Alive
  /\ stack # <<>>
  /\ Top.kind = "config"
  /\ Top.line \in {215, 222}
  /\ console' = IF ~Top.hwnd THEN console
                ELSE IF console \in {"allocated-shown", "allocated"}
                THEN "allocated"
                ELSE "hidden"
  /\ stack' = Goto(NextLine(Top.flag, Top.hwnd, Top.line))
  /\ UNCHANGED <<os_name, _registered, handlers, ctrl_handlers, _ctrl_handler,
                 freed, streams, reg, pc, ctrl, exit_code, exit_how, fin_by,
                 calls, ctrl_calls, propagated, hist, killer>>

\* line 217, kernel32.AllocConsole(): alloc says whether Windows gives the
\* process a console; the new console is shown
AllocConsole(alloc) ==
  /\ At("config", 217)
  /\ console' = IF alloc /\ console = "none" THEN "allocated-shown" ELSE console
  /\ stack' = Goto(218)
  /\ UNCHANGED <<os_name, _registered, handlers, ctrl_handlers, _ctrl_handler,
                 freed, streams, reg, pc, ctrl, exit_code, exit_how, fin_by,
                 calls, ctrl_calls, propagated, hist, killer>>

\* lines 218 to 220, sys.stdin = open("CONIN$", "r") and sys.stdout,
\* sys.stderr = open("CONOUT$", "w"): open raises OSError in a process that
\* has no console, AllocConsole having failed
open_console ==
  /\ Alive
  /\ stack # <<>>
  /\ Top.kind = "config"
  /\ Top.line \in {218, 219, 220}
  /\ IF console = "none"
     THEN /\ Raise("OSError", Top.line)
          /\ UNCHANGED streams
     ELSE /\ streams' = streams \cup {LineStream(Top.line)}
          /\ stack' = Goto(Top.line + 1)
          /\ UNCHANGED last_call
  /\ UNCHANGED <<os_name, _registered, handlers, ctrl_handlers, _ctrl_handler,
                 freed, console, reg, pc, ctrl, exit_code, exit_how, fin_by,
                 calls, ctrl_calls, propagated, nsig, ntrig, snap, hexit,
                 cleared, late_calls, late_regs, unreg, killer>>

\* one call of signal.signal(sig, _signal_handler) in _register_signals
\* (lines 97 to 103)
_register_signals ==
  /\ Alive
  /\ stack # <<>>
  /\ Top.kind = "config"
  /\ Top.line \in {97, 98, 100, 101, 103}
  /\ handlers' = handlers \cup {LineSignal(Top.line)}
  /\ stack' = Goto(NextLine(Top.flag, Top.hwnd, Top.line))
  /\ UNCHANGED <<os_name, _registered, ctrl_handlers, _ctrl_handler, freed,
                 win, reg, pc, ctrl, exit_code, exit_how, fin_by, calls,
                 ctrl_calls, propagated, hist, killer>>

\* line 83 of _register_ctrl_handler(events): the global _ctrl_handler is
\* bound to the new callback object, and the object it named until then is
\* freed, installed or not
_register_ctrl_handler ==
  /\ At("config", 83)
  /\ _ctrl_handler' = [events |-> EventsFor(Top.flag), installed |-> FALSE]
  /\ freed' = IF _ctrl_handler # NoHandler
              THEN freed \cup {_ctrl_handler}
              ELSE freed
  /\ stack' = Goto(85)
  /\ UNCHANGED <<os_name, _registered, handlers, ctrl_handlers, win, reg,
                 pc, ctrl, exit_code, exit_how, fin_by, calls, ctrl_calls,
                 propagated, hist, killer>>

\* (a variant that does not look at what SetConsoleCtrlHandler returns)
SetConsoleCtrlHandler_unchecked(ok) ==
  /\ At("config", 85)
  /\ _ctrl_handler' = [_ctrl_handler EXCEPT !.installed = ok]
  /\ ctrl_handlers' = IF ok THEN ctrl_handlers \cup {_ctrl_handler.events}
                      ELSE ctrl_handlers
  /\ stack' = Goto(115)
  /\ UNCHANGED <<os_name, _registered, handlers, freed, win, reg, pc, ctrl,
                 exit_code, exit_how, fin_by, calls, ctrl_calls, propagated,
                 hist, killer>>

\* lines 85 and 86: SetConsoleCtrlHandler(_ctrl_handler, True) returns ok;
\* when it refuses, ctypes.WinError (an OSError) is raised
SetConsoleCtrlHandler(ok) ==
  /\ At("config", 85)
  /\ IF ok
     THEN /\ _ctrl_handler' = [_ctrl_handler EXCEPT !.installed = TRUE]
          /\ ctrl_handlers' = ctrl_handlers \cup {_ctrl_handler.events}
          /\ stack' = Goto(115)
          /\ UNCHANGED last_call
     ELSE /\ Raise("OSError", 86)
          /\ UNCHANGED <<_ctrl_handler, ctrl_handlers>>
  /\ UNCHANGED <<os_name, _registered, handlers, freed, win, reg, pc, ctrl,
                 exit_code, exit_how, fin_by, calls, ctrl_calls, propagated,
                 nsig, ntrig, snap, hexit, cleared, late_calls, late_regs,
                 unreg, killer>>

\* line 115, _registered = True, and config returns: to the program, or to
\* the register that called it, which goes on to its append
config_return ==
  /\ At("config", 115)
  /\ _registered' = TRUE
  /\ stack' = IF Len(stack) > 1 /\ stack[Len(stack) - 1].kind = "register"
              THEN [Pop(stack) EXCEPT ![Len(stack) - 1].line = 236]
              ELSE Pop(stack)
  /\ last_call' = IF Len(stack) = 1
                  THEN ApiCall("config", Top.flag, "none", 0, "none")
                  ELSE last_call
  /\ UNCHANGED <<os_name, handlers, ctrl_handlers, _ctrl_handler, freed,
                 win, reg, pc, ctrl, exit_code, exit_how, fin_by, calls,
                 ctrl_calls, propagated, nsig, ntrig, snap, hexit, cleared,
                 late_calls, late_regs, unreg, killer>>

(* --------------------------- the registry ----------------------------- *)

\* list.pop(idx)
ListPop(lst, idx) == SubSeq(lst, 1, idx - 1) \o SubSeq(lst, idx + 1, Len(lst))

\* (a variant of line 234 that never calls config)
RegisterCall_no_config(s, func, args) ==
  Append(s, RegisterFrame(func, args, 236))

\* lines 234 and 235 of register(func, args), called on top of the frames s:
\* with _registered true the next line is the append; otherwise
\* config(DEFAULT_CONFIG) is called
RegisterCall(s, func, args) ==
  IF _registered
  THEN Append(s, RegisterFrame(func, args, 236))
  ELSE s \o <<RegisterFrame(func, args, 235),
             ConfigFrame(DEFAULT_CONFIG, FirstLine(DEFAULT_CONFIG))>>

\* (a variant that installs the default configuration on every call)
register_always(func) ==
  /\ Idle
  /\ nreg < MaxRegs
  /\ nreg' = nreg + 1
  /\ stack' = <<RegisterFrame(func, ArgsOf(nreg + 1), 235),
                ConfigFrame(DEFAULT_CONFIG, FirstLine(DEFAULT_CONFIG))>>
  /\ last_call' = NoApiCall
  /\ UNCHANGED <<cfg, heap, _exit_funcs, pc, ctrl, exit_code, exit_how, fin_by,
                 calls, ctrl_calls, propagated, nsig, ntrig, snap, hexit,
                 cleared, late_calls, late_regs, unreg, killer>>

\* register(func, *args), called by the program: the test of _registered
register(func) ==
  /\ Idle
  /\ nreg < MaxRegs
  /\ nreg' = nreg + 1
  /\ stack' = RegisterCall(<<>>, func, ArgsOf(nreg + 1))
  /\ last_call' = NoApiCall
  /\ UNCHANGED <<cfg, heap, _exit_funcs, pc, ctrl, exit_code, exit_how, fin_by,
                 calls, ctrl_calls, propagated, nsig, ntrig, snap, hexit,
                 cleared, late_calls, late_regs, unreg, killer>>

\* lines 236 and 237 of register: the entry is appended to the list the
\* global names now, and register returns func
register_append ==
  /\ At("register", 236)
  /\ heap' = [heap EXCEPT ![_exit_funcs] =
                 Append(@, [func |-> Top.func, args |-> Top.args])]
  /\ late_regs' = (late_regs \/ cleared)
  /\ stack' = Pop(stack)
  /\ last_call' = IF Len(stack) = 1
                  THEN ApiCall("register", {}, "none", 0, Top.func)
                  ELSE last_call
  /\ UNCHANGED <<cfg, _exit_funcs, nreg, pc, ctrl, exit_code, exit_how, fin_by,
                 calls, ctrl_calls, propagated, nsig, ntrig, snap, hexit,
                 cleared, late_calls, unreg, killer>>

\* unregister(func), called by the program: idx = 0
unregister(func) ==
  /\ Idle
  /\ stack' = <<UnregisterFrame(func, 243, 1)>>
  /\ unreg' = [func |-> func, before |-> Registry]
  /\ last_call' = NoApiCall
  /\ UNCHANGED <<cfg, reg, pc, ctrl, exit_code, exit_how, fin_by, calls,
                 ctrl_calls, propagated, nsig, ntrig, snap, hexit, cleared,
                 late_calls, late_regs, killer>>

\* the program's call of unregister is over
UnregOver == IF Len(stack) = 1 THEN NoCall ELSE unreg

\* line 243, while idx < len(_exit_funcs): on to the test of the entry, or
\* unregister returns
unregister_while ==
  /\ At("unregister", 243)
  /\ IF Top.idx <= Len(Registry)
     THEN /\ stack' = Goto(244)
          /\ UNCHANGED <<unreg, last_call>>
     ELSE /\ stack' = Pop(stack)
          /\ unreg' = UnregOver
          /\ last_call' = IF Len(stack) = 1
                          THEN ApiCall("unregister", {}, "none", 0, "none")
                          ELSE last_call
  /\ UNCHANGED <<cfg, reg, pc, ctrl, exit_code, exit_how, fin_by, calls,
                 ctrl_calls, propagated, nsig, ntrig, snap, hexit, cleared,
                 late_calls, late_regs, killer>>

\* line 244, if _exit_funcs[idx][0] == func: on to the pop, or idx += 1; the
\* subscript raises IndexError when the list the global names now is shorter
\* than the one the while test saw
unregister_if ==
  /\ At("unregister", 244)
  /\ IF Top.idx > Len(Registry)
     THEN /\ Raise("IndexError", 244)
          /\ unreg' = UnregOver
     ELSE /\ stack' = IF Registry[Top.idx].func = Top.func
                      THEN Goto(245)
                      ELSE [Goto(243) EXCEPT ![Len(stack)].idx = @ + 1]
          /\ UNCHANGED <<unreg, last_call>>
  /\ UNCHANGED <<cfg, reg, pc, ctrl, exit_code, exit_how, fin_by, calls,
                 ctrl_calls, propagated, nsig, ntrig, snap, hexit, cleared,
                 late_calls, late_regs, killer>>

\* line 245, _exit_funcs.pop(idx), and back to the while test with idx as it
\* is; pop raises IndexError when the list the global names now is too short
unregister_pop ==
  /\ At("unregister", 245)
  /\ IF Top.idx > Len(Registry)
     THEN /\ Raise("IndexError", 245)
          /\ unreg' = UnregOver
          /\ UNCHANGED heap
     ELSE /\ heap' = [heap EXCEPT ![_exit_funcs] = ListPop(@, Top.idx)]
          /\ stack' = Goto(243)
          /\ UNCHANGED <<unreg, last_call>>
  /\ UNCHANGED <<cfg, _exit_funcs, nreg, pc, ctrl, exit_code, exit_how, fin_by,
                 calls, ctrl_calls, propagated, nsig, ntrig, snap, hexit,
                 cleared, late_calls, late_regs, killer>>

(* ------------------------ _call_exit_funcs ---------------------------- *)

\* exit functions that call the module back while they run: u calls
\* unregister(u), v calls unregister(f), r calls register(f)
Mutators == {"u", "v", "r"}
\* the callable that exit function func unregisters
Unregisters(func) == IF func = "u" THEN "u" ELSE "f"

\* what calling func(*args, **kwargs) raises
Outcome(func) ==
  IF func \in Raising THEN "Exception"
  ELSE IF func \in Exiting THEN "SystemExit"
  ELSE "none"

\* one iteration of the for loop in the frame on top of the main thread: the
\* iterator steps to the next place and the entry is called.  An exit function
\* that calls unregister or register is inside that call from then on, and the
\* loop goes on when the call has returned.  An exception the except clause
\* does not catch leaves _call_exit_funcs and its callers
CallNext ==
  /\ Alive
  /\ stack # <<>>
  /\ Top.kind = "drain"
  /\ Top.i <= Len(heap[Top.lst])
  /\ LET e == heap[Top.lst][Top.i]
         next == [stack EXCEPT ![Len(stack)].i = @ + 1]
     IN /\ calls' = Append(calls, e)
        /\ late_calls' = IF Top.late THEN late_calls + 1 ELSE late_calls
        /\ IF e.func \in {"u", "v"}
           THEN /\ stack' = Append(next, UnregisterFrame(Unregisters(e.func), 243, 1))
                /\ UNCHANGED <<pc, exit_code, fin_by, propagated>>
           ELSE IF e.func = "r"
           THEN /\ stack' = RegisterCall(next, "f", 0)
                /\ UNCHANGED <<pc, exit_code, fin_by, propagated>>
           ELSE IF Outcome(e.func) = "none" \/ Catches(Outcome(e.func))
           THEN /\ stack' = next
                /\ UNCHANGED <<pc, exit_code, fin_by, propagated>>
           ELSE /\ Unwind(ExitFuncCode, "exitfunc")
                /\ propagated' = TRUE
  /\ UNCHANGED <<cfg, reg, ctrl, exit_how, ctrl_calls, nsig, ntrig, snap, hexit,
                 cleared, late_regs, unreg, last_call, killer>>

\* (a variant without the global statement: the assignment binds a local)
Clear_local ==
  /\ Alive
  /\ stack # <<>>
  /\ Top.kind = "drain"
  /\ Top.i > Len(heap[Top.lst])
  /\ stack' = IF Len(stack) > 1 /\ stack[Len(stack) - 1].kind = "handler"
              THEN [Pop(stack) EXCEPT ![Len(stack) - 1].i = 1]
              ELSE Pop(stack)
  /\ cleared' = TRUE
  /\ UNCHANGED <<cfg, reg, pc, ctrl, exit_code, exit_how, fin_by, calls,
                 ctrl_calls, propagated, nsig, ntrig, snap, hexit, late_calls,
                 late_regs, unreg, last_call, killer>>

\* the loop is over: _exit_funcs = [] and return (to _signal_handler, which
\* goes on to its sys.exit, or to atexit)
Clear ==
  /\ Alive
  /\ stack # <<>>
  /\ Top.kind = "drain"
  /\ Top.i > Len(heap[Top.lst])
  /\ heap' = Append(heap, <<>>)
  /\ _exit_funcs' = Len(heap) + 1
  /\ stack' = IF Len(stack) > 1 /\ stack[Len(stack) - 1].kind = "handler"
              THEN [Pop(stack) EXCEPT ![Len(stack) - 1].i = 1]
              ELSE Pop(stack)
  /\ cleared' = TRUE
  /\ UNCHANGED <<cfg, nreg, pc, ctrl, exit_code, exit_how, fin_by, calls,
                 ctrl_calls, propagated, nsig, ntrig, snap, hexit, late_calls,
                 late_regs, unreg, last_call, killer>>

(* ------------------------- the dispatcher ----------------------------- *)

\* (a variant that goes to sys.exit without calling _call_exit_funcs)
_signal_handler_exit_first ==
  /\ stack' = Append(stack, HandlerFrame)
  /\ Trigger
  /\ UNCHANGED <<pc, exit_code, exit_how, fin_by>>

\* a signal whose handler is _signal_handler arrives: the main thread runs
\* the handler on top of whatever it is doing, and the handler calls
\* _call_exit_funcs
_signal_handler ==
  /\ stack' = stack \o <<HandlerFrame, DrainFrame(_exit_funcs)>>
  /\ Trigger
  /\ UNCHANGED <<pc, exit_code, exit_how, fin_by>>

\* a signal left at its default: Python's own SIGINT handler raises
\* KeyboardInterrupt in the main thread (the interpreter finalizes, atexit
\* runs, and Terminate ends the process as an interrupted one), any other
\* signal ends the process at once
DefaultAction(sig) ==
  IF sig = SIGINT
  THEN /\ Unwind(1, "interrupt")
       /\ UNCHANGED exit_how
       /\ IF pc = "run" THEN Trigger ELSE NoTrigger
  ELSE /\ pc' = "terminated"
       /\ exit_how' = "signal"
       /\ NoTrigger
       /\ UNCHANGED <<stack, exit_code, fin_by>>

\* signal sig reaches the process
Deliver(sig) ==
  /\ Alive
  /\ IF sig \in handlers THEN _signal_handler ELSE DefaultAction(sig)

\* the environment delivers a signal
Signal(sig) ==
  /\ nsig < MaxSignals
  /\ sig \in Deliverable(os_name)
  /\ nsig' = nsig + 1
  /\ Deliver(sig)
  /\ UNCHANGED <<cfg, reg, ctrl, calls, ctrl_calls, propagated, hexit, cleared,
                 late_calls, late_regs, unreg, killer>>

\* the exit status _signal_handler passes to sys.exit
HandlerExitCode == 0

\* sys.exit(0) at the end of _signal_handler
HandlerExit ==
  /\ Alive
  /\ stack # <<>>
  /\ Top.kind = "handler"
  /\ hexit' = [called |-> TRUE, drained |-> Top.i = 1, empty |-> Registry = <<>>,
               code |-> HandlerExitCode]
  /\ Unwind(HandlerExitCode, "handler")
  /\ UNCHANGED <<cfg, reg, ctrl, exit_how, calls, ctrl_calls, propagated, nsig,
                 ntrig, snap, cleared, late_calls, late_regs, unreg, last_call,
                 killer>>

\* the program ends: sys.exit(code) or the end of the script
ProgramExit(code) ==
  /\ Idle
  /\ Finalize(code, "program")
  /\ Trigger
  /\ UNCHANGED <<cfg, reg, ctrl, exit_how, calls, ctrl_calls, propagated, nsig,
                 hexit, cleared, late_calls, late_regs, unreg, killer>>

\* atexit is over and the process ends with its exit status; after a
\* KeyboardInterrupt that nothing caught the interpreter puts SIGINT back to
\* its default and sends it to itself, so that on posix the process is killed
\* by SIGINT (wait status -SIGINT), and on nt it exits with
\* STATUS_CONTROL_C_EXIT, the 32-bit status 0xC000013A (here as a signed
\* 32-bit integer)
Terminate ==
  /\ pc = "finalize"
  /\ stack = <<>>
  /\ pc' = "terminated"
  /\ IF fin_by = "interrupt"
     THEN IF os_name = "posix"
          THEN exit_how' = "signal" /\ exit_code' = -SIGINT
          ELSE exit_how' = "exit" /\ exit_code' = -1073741510
     ELSE exit_how' = "exit" /\ UNCHANGED exit_code
  /\ UNCHANGED <<cfg, reg, stack, ctrl, fin_by, calls, ctrl_calls,
                 propagated, hist, killer>>

(* ------------------- the console-control callback --------------------- *)

\* the events Windows hands to the console-control handlers of a process and
\* that end it when no handler returns True
CtrlEvents == {CTRL_CLOSE_EVENT, CTRL_LOGOFF_EVENT, CTRL_SHUTDOWN_EVENT}

\* ctrl_type in events, in the callback the global _ctrl_handler keeps alive
Handled(ev) == _ctrl_handler.installed /\ ev \in _ctrl_handler.events

\* (a variant of ctrl_handler without the test of ctrl_type)
ctrl_handler_any(ev) ==
  /\ Alive
  /\ ctrl.kind = "none"
  /\ IF _ctrl_handler.installed
     THEN /\ ctrl' = DrainFrame(_exit_funcs)
          /\ Trigger
          /\ UNCHANGED <<pc, exit_how>>
     ELSE /\ pc' = "terminated"
          /\ exit_how' = "default"
          /\ NoTrigger
          /\ UNCHANGED ctrl

\* Windows starts a thread that calls the installed handlers with ctrl_type
\* ev, the last installed first, until one returns True: ctrl_handler calls
\* _call_exit_funcs when ev is one of its events; when every handler returns
\* False the default handler ends the process.  A call through the pointer
\* of a freed callback object is undefined: it crashes the process, or runs
\* the closure of some callback object the module created (the freed one's
\* own, or a later one's that was given the freed slot), which drains when ev
\* is one of that closure's events and returns False otherwise; the closures
\* are those of the callbacks that were installed and of the ones refused
ctrl_handler(ev) ==
  /\ Alive
  /\ ctrl.kind = "none"
  /\ \/ /\ \/ Handled(ev)
           \/ /\ dangling # {}
              /\ \E c \in freed \cup {_ctrl_handler} : ev \in c.events
        /\ ctrl' = DrainFrame(_exit_funcs)
        /\ Trigger
        /\ UNCHANGED <<pc, exit_how>>
     \/ /\ ~Handled(ev)
        /\ pc' = "terminated"
        /\ exit_how' = "default"
        /\ NoTrigger
        /\ UNCHANGED ctrl
     \/ /\ ~Handled(ev)
        /\ dangling # {}
        /\ pc' = "terminated"
        /\ exit_how' = "crash"
        /\ NoTrigger
        /\ UNCHANGED ctrl

\* the environment closes the console, logs the user off or shuts down
CtrlEvent(ev) ==
  /\ os_name = "nt"
  /\ nsig < MaxSignals
  /\ nsig' = nsig + 1
  /\ ctrl_handler(ev)
  /\ UNCHANGED <<cfg, reg, stack, exit_code, fin_by, calls, ctrl_calls,
                 propagated, hexit, cleared, late_calls, late_regs, unreg,
                 killer>>

\* the callback's thread is back in the loop of _call_exit_funcs: the call
\* that its exit function made has returned, or raised an exception that the
\* except clause of the loop catches
CtrlResume ==
  [ctrl EXCEPT !.kind = "drain", !.func = "none", !.args = 0, !.line = 0,
               !.idx = 0]

\* one iteration of the for loop of _call_exit_funcs in the callback's
\* thread.  An exit function that calls unregister or register is inside that
\* call from then on: register finds _registered true, its entry being in a
\* list, and goes to its append.  An exception the except clause does not
\* catch leaves ctrl_handler: ctypes prints it and sets no result, so the
\* value Windows reads as the callback's result is not initialised; Windows
\* ends the process as after True when it is not zero, and the default handler
\* ends it when it is zero
CtrlCallNext ==
  /\ Alive
  /\ ctrl.kind = "drain"
  /\ ctrl.i <= Len(heap[ctrl.lst])
  /\ LET e == heap[ctrl.lst][ctrl.i]
         next == [ctrl EXCEPT !.i = @ + 1]
     IN /\ ctrl_calls' = Append(ctrl_calls, e)
        /\ late_calls' = IF ctrl.late THEN late_calls + 1 ELSE late_calls
        /\ IF e.func \in {"u", "v"}
           THEN /\ ctrl' = [next EXCEPT !.kind = "unregister",
                                        !.func = Unregisters(e.func),
                                        !.line = 243, !.idx = 1]
                /\ UNCHANGED <<pc, exit_how, propagated>>
           ELSE IF e.func = "r"
           THEN /\ ctrl' = [next EXCEPT !.kind = "register", !.func = "f",
                                        !.args = 0, !.line = 236]
                /\ UNCHANGED <<pc, exit_how, propagated>>
           ELSE IF Outcome(e.func) = "none" \/ Catches(Outcome(e.func))
           THEN /\ ctrl' = next
                /\ UNCHANGED <<pc, exit_how, propagated>>
           ELSE /\ pc' = "terminated"
                /\ exit_how' \in {"ctrl", "default"}
                /\ propagated' = TRUE
                /\ UNCHANGED ctrl
  /\ UNCHANGED <<cfg, reg, stack, exit_code, fin_by, calls, nsig, ntrig, snap,
                 hexit, cleared, late_regs, unreg, last_call, killer>>

\* line 243 of unregister in the callback's thread: on to the test of the
\* entry, or unregister returns to the exit function and the loop goes on
ctrl_unregister_while ==
  /\ Alive
  /\ ctrl.kind = "unregister"
  /\ ctrl.line = 243
  /\ ctrl' = IF ctrl.idx <= Len(Registry)
             THEN [ctrl EXCEPT !.line = 244]
             ELSE CtrlResume
  /\ UNCHANGED <<cfg, reg, pc, stack, exit_code, exit_how, fin_by, calls,
                 ctrl_calls, propagated, hist, killer>>

\* line 244 in the callback's thread: on to the pop, or idx += 1; the
\* IndexError of the subscript is caught by the loop of _call_exit_funcs
ctrl_unregister_if ==
  /\ Alive
  /\ ctrl.kind = "unregister"
  /\ ctrl.line = 244
  /\ ctrl' = IF ctrl.idx > Len(Registry)
             THEN CtrlResume
             ELSE IF Registry[ctrl.idx].func = ctrl.func
             THEN [ctrl EXCEPT !.line = 245]
             ELSE [ctrl EXCEPT !.line = 243, !.idx = @ + 1]
  /\ UNCHANGED <<cfg, reg, pc, stack, exit_code, exit_how, fin_by, calls,
                 ctrl_calls, propagated, hist, killer>>

\* line 245 in the callback's thread: _exit_funcs.pop(idx) and back to the
\* while test; the IndexError of pop is caught by the loop of _call_exit_funcs
ctrl_unregister_pop ==
  /\ Alive
  /\ ctrl.kind = "unregister"
  /\ ctrl.line = 245
  /\ IF ctrl.idx > Len(Registry)
     THEN /\ ctrl' = CtrlResume
          /\ UNCHANGED heap
     ELSE /\ heap' = [heap EXCEPT ![_exit_funcs] = ListPop(@, ctrl.idx)]
          /\ ctrl' = [ctrl EXCEPT !.line = 243]
  /\ UNCHANGED <<cfg, _exit_funcs, nreg, pc, stack, exit_code, exit_how, fin_by,
                 calls, ctrl_calls, propagated, hist, killer>>

\* lines 236 and 237 of register in the callback's thread: the entry is
\* appended to the list the global names now
ctrl_register_append ==
  /\ Alive
  /\ ctrl.kind = "register"
  /\ ctrl.line = 236
  /\ heap' = [heap EXCEPT ![_exit_funcs] =
                 Append(@, [func |-> ctrl.func, args |-> ctrl.args])]
  /\ late_regs' = (late_regs \/ cleared)
  /\ ctrl' = CtrlResume
  /\ UNCHANGED <<cfg, _exit_funcs, nreg, pc, stack, exit_code, exit_how, fin_by,
                 calls, ctrl_calls, propagated, nsig, ntrig, snap, hexit,
                 cleared, late_calls, unreg, last_call, killer>>

\* the loop in the callback's thread is over: _exit_funcs = [] and return
CtrlClear ==
  /\ Alive
  /\ ctrl.kind = "drain"
  /\ ctrl.i > Len(heap[ctrl.lst])
  /\ heap' = Append(heap, <<>>)
  /\ _exit_funcs' = Len(heap) + 1
  /\ ctrl' = [ctrl EXCEPT !.kind = "return"]
  /\ cleared' = TRUE
  /\ UNCHANGED <<cfg, nreg, pc, stack, exit_code, exit_how, fin_by, calls,
                 ctrl_calls, propagated, nsig, ntrig, snap, hexit, late_calls,
                 late_regs, unreg, last_call, killer>>

\* ctrl_handler returns True and Windows ends the process
CtrlReturn ==
  /\ Alive
  /\ ctrl.kind = "return"
  /\ pc' = "terminated"
  /\ exit_how' = "ctrl"
  /\ UNCHANGED <<cfg, reg, stack, ctrl, exit_code, fin_by, calls, ctrl_calls,
                 propagated, hist, killer>>

(* --------------------------- specification ---------------------------- *)

Init ==
  /\ os_name \in {"posix", "nt"}
  /\ _registered = FALSE
  /\ handlers = {}
  /\ ctrl_handlers = {}
  /\ _ctrl_handler = NoHandler
  /\ freed = {}
  /\ console \in IF os_name = "nt" THEN {"none", "shown"} ELSE {"none"}
  /\ streams = {}
  /\ heap = << <<>> >>
  /\ _exit_funcs = 1
  /\ nreg = 0
  /\ pc = "run"
  /\ stack = <<>>
  /\ ctrl = NoFrame
  /\ exit_code = -1
  /\ exit_how = "none"
  /\ fin_by = "none"
  /\ calls = <<>>
  /\ ctrl_calls = <<>>
  /\ propagated = FALSE
  /\ nsig = 0
  /\ ntrig = 0
  /\ snap = <<>>
  /\ hexit = [called |-> FALSE, drained |-> FALSE, empty |-> FALSE, code |-> -1]
  /\ cleared = FALSE
  /\ late_calls = 0
  /\ late_regs = FALSE
  /\ unreg = NoCall
  /\ last_call = NoApiCall
  /\ k_pc = "idle"
  /\ k_args = [sig |-> NoSignal, force |-> FALSE, silence |-> FALSE]
  /\ k_exc = [type |-> "none", msgs |-> <<>>]
  /\ k_hist = [sent |-> FALSE, waited |-> "no", kill_called |-> FALSE,
               req |-> "no", tried |-> <<>>]
  /\ reaped = FALSE

\* the steps of config(flag) after the program's call or register's, but for
\* those on the console
ConfigSteps(oks) ==
  \/ GetConsoleWindow
  \/ _register_signals
  \/ _register_ctrl_handler
  \/ \E ok \in oks : SetConsoleCtrlHandler(ok)
  \/ config_return

\* the steps of config(flag) on the console, which the flags
\* FORCE_HIDE_CONSOLE and AUTO_CREATE_CONSOLE ask for
ConsoleSteps(allocs) ==
  \/ ShowWindow
  \/ \E alloc \in allocs : AllocConsole(alloc)
  \/ open_console

\* the steps of the exit functions that call unregister or register in the
\* callback's thread
CtrlMutatorSteps ==
  \/ ctrl_unregister_while
  \/ ctrl_unregister_if
  \/ ctrl_unregister_pop
  \/ ctrl_register_append

\* the process that owns the registry, and its environment; the program
\* calls config before the dispatcher is installed, as config's docstring
\* asks, and Windows gives the console and accepts the console handler
\* (ConfigSpec has the refusals)
Next ==
  \/ \E flag \in ConfigInputs : ~_registered /\ config(flag)
  \/ ConfigSteps({TRUE})
  \/ ConsoleSteps({TRUE})
  \/ \E func \in Funcs \cup Exiting : register(func)
  \/ register_append
  \/ \E func \in Funcs : unregister(func)
  \/ unregister_while
  \/ unregister_if
  \/ unregister_pop
  \/ \E code \in ExitCodes : ProgramExit(code)
  \/ \E sig \in {SIGINT, SIGTERM, SIGQUIT, SIGHUP, SIGBREAK} : Signal(sig)
  \/ CallNext
  \/ Clear
  \/ HandlerExit
  \/ Terminate
  \/ \E ev \in CtrlEvents : CtrlEvent(ev)
  \/ CtrlCallNext
  \/ CtrlClear
  \/ CtrlReturn

Spec == Init /\ [][Next]_vars

\* a program that calls config and register in any order and any number of
\* times, and the console events and the ordinary exit that drain its registry
NextConfig ==
  \/ \E flag \in ConfigInputs : config(flag)
  \/ ConfigSteps(BOOLEAN)
  \/ ConsoleSteps(BOOLEAN)
  \/ \E func \in Funcs : register(func)
  \/ register_append
  \/ \E code \in ExitCodes : ProgramExit(code)
  \/ CallNext
  \/ Clear
  \/ Terminate
  \/ \E ev \in CtrlEvents : CtrlEvent(ev)
  \/ CtrlCallNext
  \/ CtrlClear
  \/ CtrlReturn

ConfigSpec == Init /\ [][NextConfig]_vars

\* a program whose exit functions call register and unregister while the
\* registry is drained by an ordinary exit, by a signal or by a console event
NextMut ==
  \/ ConfigSteps({TRUE})
  \/ \E func \in Funcs \cup Mutators : register(func)
  \/ register_append
  \/ unregister_while
  \/ unregister_if
  \/ unregister_pop
  \/ \E code \in ExitCodes : ProgramExit(code)
  \/ \E sig \in {SIGINT, SIGTERM, SIGQUIT, SIGHUP, SIGBREAK} : Signal(sig)
  \/ CallNext
  \/ Clear
  \/ HandlerExit
  \/ Terminate
  \/ \E ev \in CtrlEvents : CtrlEvent(ev)
  \/ CtrlCallNext
  \/ CtrlMutatorSteps
  \/ CtrlClear
  \/ CtrlReturn

MutSpec == Init /\ [][NextMut]_vars

(* ------------------------------ safe_kill ------------------------------ *)

\* the kill_signal arguments tried: None, a signal (posix), a console event or
\* a code above CTRL_BREAK_EVENT (nt)
KillSignals(os) ==
  IF os = "posix" THEN {NoSignal, SIGQUIT}
  ELSE {NoSignal, CTRL_C_EVENT, CTRL_BREAK_EVENT, CTRL_CLOSE_EVENT}

NoException == [type |-> "none", msgs |-> <<>>]

\* the process id names no process: the process has ended and (posix) its
\* parent has waited for it
Gone == ~Alive /\ (os_name = "nt" \/ reaped)
\* posix: the process has ended and its parent has not waited for it yet; the
\* process id still names it, and a signal sent to it is accepted and lost
Zombie == ~Alive /\ ~Gone

\* _win_send_wm_close(pid): window says whether find_main_window finds one
_win_send_wm_close(window) ==
  IF window THEN [ok |-> TRUE, sent |-> "WM_CLOSE", msg |-> "none"]
  ELSE [ok |-> FALSE, sent |-> "none", msg |-> "no window"]

\* _win_console_event_kill(pid, kill_signal): attach and generate are the
\* results of AttachConsole and GenerateConsoleCtrlEvent
_win_console_event_kill(kill_signal, attach, generate) ==
  IF attach
  THEN IF generate
       THEN [ok |-> TRUE, sent |-> IF kill_signal = CTRL_C_EVENT THEN "CTRL_C" ELSE "CTRL_BREAK",
             msg |-> "none"]
       ELSE [ok |-> FALSE, sent |-> "none", msg |-> "no event"]
  ELSE [ok |-> FALSE, sent |-> "none", msg |-> "no console"]

\* (a variant whose first branch does not fall through to the second)
_win_nice_kill_no_fallback(kill_signal, window, attach, generate) ==
  LET first == kill_signal = NoSignal \/ kill_signal > CTRL_BREAK_EVENT
      second == kill_signal \in {CTRL_C_EVENT, CTRL_BREAK_EVENT}
      w == _win_send_wm_close(window)
      c == _win_console_event_kill(kill_signal, attach, generate)
  IN IF first
     THEN IF w.ok
          THEN [ok |-> TRUE, sent |-> w.sent, msgs |-> <<>>, tried |-> <<"window">>]
          ELSE [ok |-> FALSE, sent |-> "none", msgs |-> <<w.msg>>, tried |-> <<"window">>]
     ELSE IF second /\ c.ok
          THEN [ok |-> TRUE, sent |-> c.sent, msgs |-> <<>>, tried |-> <<"console">>]
          ELSE [ok |-> FALSE, sent |-> "none", msgs |-> <<c.msg>>, tried |-> <<"console">>]

\* _win_nice_kill(pid, kill_signal): what was sent, or the messages of the
\* SafeExitException it raises, and the branches it went through
_win_nice_kill(kill_signal, window, attach, generate) ==
  LET first == kill_signal = NoSignal \/ kill_signal > CTRL_BREAK_EVENT
      second == kill_signal = NoSignal \/ kill_signal \in {CTRL_C_EVENT, CTRL_BREAK_EVENT}
      w == _win_send_wm_close(window)
      c == _win_console_event_kill(
             IF kill_signal = NoSignal THEN CTRL_C_EVENT ELSE kill_signal,
             attach, generate)
      msg1 == IF first THEN <<w.msg>> ELSE <<>>
      try1 == IF first THEN <<"window">> ELSE <<>>
  IN IF first /\ w.ok
     THEN [ok |-> TRUE, sent |-> w.sent, msgs |-> <<>>, tried |-> try1]
     ELSE IF second /\ c.ok
     THEN [ok |-> TRUE, sent |-> c.sent, msgs |-> <<>>, tried |-> try1 \o <<"console">>]
     ELSE [ok |-> FALSE, sent |-> "none",
           msgs |-> msg1 \o (IF second THEN <<c.msg>> ELSE <<>>),
           tried |-> try1 \o (IF second THEN <<"console">> ELSE <<>>)]

\* control leaves safe_kill: the except clause re-raises unless silence
Leave(exc) ==
  k_pc' = IF exc.type # "none" /\ ~k_args.silence THEN "raised" ELSE "returned"

\* safe_kill(pid, kill_signal, timeout_secs, force_kill, silence) is called:
\* psutil.Process(pid), before the try block
safe_kill(kill_signal, force_kill, silence) ==
  /\ k_pc = "idle"
  /\ k_args' = [sig |-> kill_signal, force |-> force_kill, silence |-> silence]
  /\ IF ~Gone
     THEN /\ k_pc' = "request"
          /\ UNCHANGED k_exc
     ELSE /\ k_pc' = "raised"
          /\ k_exc' = [type |-> "NoSuchProcess", msgs |-> <<>>]
  /\ UNCHANGED <<cfg, reg, pc, stack, ctrl, exit_code, exit_how, fin_by, calls,
                 ctrl_calls, propagated, hist, k_hist, reaped>>

\* os.kill(pid, kill_signal if kill_signal is not None else signal.SIGTERM):
\* the signal reaches a live target, is lost on a zombie, and os.kill raises
\* ProcessLookupError only when the process id names nothing
RequestPosix ==
  /\ k_pc = "request"
  /\ os_name = "posix"
  /\ IF Alive
     THEN /\ Deliver(IF k_args.sig # NoSignal THEN k_args.sig ELSE SIGTERM)
          /\ k_pc' = "wait"
          /\ k_hist' = [k_hist EXCEPT !.sent = TRUE, !.req = "signal"]
          /\ UNCHANGED k_exc
     ELSE /\ IF Zombie
             THEN /\ k_pc' = "wait"
                  /\ k_hist' = [k_hist EXCEPT !.sent = TRUE, !.req = "zombie"]
                  /\ UNCHANGED k_exc
             ELSE /\ k_pc' = "finally"
                  /\ k_exc' = [type |-> "ProcessLookupError", msgs |-> <<>>]
                  /\ k_hist' = [k_hist EXCEPT !.req = "failed"]
          /\ UNCHANGED <<pc, stack, exit_code, exit_how, fin_by, ntrig, snap,
                         last_call>>
  /\ UNCHANGED <<cfg, reg, ctrl, calls, ctrl_calls, propagated, nsig, hexit,
                 cleared, late_calls, late_regs, unreg, k_args,
                 reaped>>

\* what the target's process receives: closing its console window raises
\* CTRL_CLOSE_EVENT in it, a generated console event raises SIGINT or SIGBREAK
Receive(sent) ==
  IF sent = "WM_CLOSE"
  THEN /\ ctrl_handler(CTRL_CLOSE_EVENT)
       /\ UNCHANGED <<stack, exit_code, fin_by>>
  ELSE /\ Deliver(IF sent = "CTRL_C" THEN SIGINT ELSE SIGBREAK)
       /\ UNCHANGED ctrl

\* (a variant whose try block goes on to proc.wait after a failed request)
RequestNt_then_wait(window, attach, generate) ==
  /\ k_pc = "request"
  /\ os_name = "nt"
  /\ (window \/ attach) => (Alive /\ ctrl.kind = "none")
  /\ LET r == _win_nice_kill(k_args.sig, window, attach, generate)
     IN IF r.ok
        THEN /\ Receive(r.sent)
             /\ k_pc' = "wait"
             /\ k_hist' = [k_hist EXCEPT !.sent = TRUE, !.req = r.sent,
                                         !.tried = r.tried]
             /\ UNCHANGED k_exc
        ELSE /\ k_pc' = "wait"
             /\ k_exc' = [type |-> "SafeExitException", msgs |-> r.msgs]
             /\ k_hist' = [k_hist EXCEPT !.req = "failed", !.tried = r.tried]
             /\ UNCHANGED <<pc, stack, ctrl, exit_code, exit_how, fin_by, ntrig,
                            snap, last_call>>
  /\ UNCHANGED <<cfg, reg, calls, ctrl_calls, propagated, nsig, hexit, cleared,
                 late_calls, late_regs, unreg, k_args,
                 reaped>>

\* _win_nice_kill(pid, kill_signal)
RequestNt(window, attach, generate) ==
  /\ k_pc = "request"
  /\ os_name = "nt"
  /\ (window \/ attach) => (Alive /\ ctrl.kind = "none")
  /\ LET r == _win_nice_kill(k_args.sig, window, attach, generate)
     IN IF r.ok
        THEN /\ Receive(r.sent)
             /\ k_pc' = "wait"
             /\ k_hist' = [k_hist EXCEPT !.sent = TRUE, !.req = r.sent,
                                         !.tried = r.tried]
             /\ UNCHANGED k_exc
        ELSE /\ k_pc' = "finally"
             /\ k_exc' = [type |-> "SafeExitException", msgs |-> r.msgs]
             /\ k_hist' = [k_hist EXCEPT !.req = "failed", !.tried = r.tried]
             /\ UNCHANGED <<pc, stack, ctrl, exit_code, exit_how, fin_by, ntrig,
                            snap, last_call>>
  /\ UNCHANGED <<cfg, reg, calls, ctrl_calls, propagated, nsig, hexit, cleared,
                 late_calls, late_regs, unreg, k_args,
                 reaped>>

\* proc.wait(timeout_secs) returns: the target has ended; when it is a
\* zombie the caller is its parent, and the wait frees the process id
WaitReturn ==
  /\ k_pc = "wait"
  /\ ~Alive
  /\ k_pc' = "finally"
  /\ k_hist' = [k_hist EXCEPT !.waited = "returned"]
  /\ reaped' = IF os_name = "posix" THEN TRUE ELSE reaped
  /\ UNCHANGED <<cfg, reg, pc, stack, ctrl, exit_code, exit_how, fin_by, calls,
                 ctrl_calls, propagated, hist, k_args, k_exc>>

\* proc.wait(timeout_secs) raises TimeoutExpired: the process id still names
\* the target, which is alive or the zombie of another parent's child
WaitTimeout ==
  /\ k_pc = "wait"
  /\ ~Gone
  /\ k_pc' = "finally"
  /\ k_exc' = [type |-> "TimeoutExpired", msgs |-> <<>>]
  /\ k_hist' = [k_hist EXCEPT !.waited = "timeout"]
  /\ UNCHANGED <<cfg, reg, pc, stack, ctrl, exit_code, exit_how, fin_by, calls,
                 ctrl_calls, propagated, hist, k_args, reaped>>

\* (a variant that does not ask proc.is_running())
Finally_always ==
  /\ k_pc = "finally"
  /\ IF k_args.force THEN k_pc' = "kill" ELSE Leave(k_exc)
  /\ UNCHANGED <<cfg, reg, pc, stack, ctrl, exit_code, exit_how, fin_by, calls,
                 ctrl_calls, propagated, hist, k_args, k_exc, k_hist, reaped>>

\* (a variant that kills after the try statement instead of in its finally)
Finally_after_try ==
  /\ k_pc = "finally"
  /\ IF k_args.force /\ ~Gone /\ (k_exc.type = "none" \/ k_args.silence)
     THEN k_pc' = "kill"
     ELSE Leave(k_exc)
  /\ UNCHANGED <<cfg, reg, pc, stack, ctrl, exit_code, exit_how, fin_by, calls,
                 ctrl_calls, propagated, hist, k_args, k_exc, k_hist, reaped>>

\* finally: if force_kill and proc.is_running(), which is true as long as
\* the process id names the target, zombie or not
Finally ==
  /\ k_pc = "finally"
  /\ IF k_args.force /\ ~Gone THEN k_pc' = "kill" ELSE Leave(k_exc)
  /\ UNCHANGED <<cfg, reg, pc, stack, ctrl, exit_code, exit_how, fin_by, calls,
                 ctrl_calls, propagated, hist, k_args, k_exc, k_hist, reaped>>

\* proc.kill(): SIGKILL ends a live target and is lost on a zombie; it raises
\* NoSuchProcess when the process id names nothing any more
Kill ==
  /\ k_pc = "kill"
  /\ k_hist' = [k_hist EXCEPT !.kill_called = TRUE]
  /\ IF Alive
     THEN /\ pc' = "terminated"
          /\ exit_how' = "killed"
          /\ Leave(k_exc)
          /\ UNCHANGED k_exc
     ELSE /\ IF Zombie
             THEN Leave(k_exc) /\ UNCHANGED k_exc
             ELSE /\ k_pc' = "raised"
                  /\ k_exc' = [type |-> "NoSuchProcess", msgs |-> <<>>]
          /\ UNCHANGED <<pc, exit_how>>
  /\ UNCHANGED <<cfg, reg, stack, ctrl, exit_code, fin_by, calls, ctrl_calls,
                 propagated, hist, k_args, reaped>>

\* posix: the parent of the terminated target waits for it
Reap ==
  /\ os_name = "posix"
  /\ ~Alive
  /\ ~reaped
  /\ reaped' = TRUE
  /\ UNCHANGED <<cfg, reg, pc, stack, ctrl, exit_code, exit_how, fin_by, calls,
                 ctrl_calls, propagated, hist, k_pc, k_args, k_exc, k_hist>>

\* a process that registers exit functions, and a second process that calls
\* safe_kill on it once
NextKill ==
  \/ ConfigSteps({TRUE})
  \/ \E func \in Funcs : register(func)
  \/ register_append
  \/ \E code \in ExitCodes : ProgramExit(code)
  \/ CallNext
  \/ Clear
  \/ HandlerExit
  \/ Terminate
  \/ CtrlCallNext
  \/ CtrlClear
  \/ CtrlReturn
  \/ \E s \in KillSignals(os_name), f \in BOOLEAN, q \in BOOLEAN : safe_kill(s, f, q)
  \/ RequestPosix
  \/ \E w \in BOOLEAN, a \in BOOLEAN, g \in BOOLEAN : RequestNt(w, a, g)
  \/ WaitReturn
  \/ WaitTimeout
  \/ Finally
  \/ Kill
  \/ Reap

KillSpec == Init /\ [][NextKill]_vars


(* ------------------------------- claims ------------------------------- *)

Range(s) == {s[i] : i \in 1..Len(s)}
NoRepeat(s) == \A i, j \in 1..Len(s) : i # j => s[i] # s[j]
Keep(lst, func) == LET Other(e) == e.func # func IN SelectSeq(lst, Other)
\* the process ended by itself: the interpreter finalized, or Windows ended it
\* after ctrl_handler had returned True
EndedCleanly == pc = "terminated" /\ exit_how \in {"exit", "ctrl"}

\* C1: after register/unregister calls and one termination trigger (a handled
\* signal, a selected console event or an ordinary exit), the process has
\* invoked exactly the entries that were registered when the trigger fired,
\* each once, in registration order, with the arguments given to register;
\* the entries unregister removed are not among them.
C1_EachEntryOnceInOrder ==
  (EndedCleanly /\ ntrig = 1) => calls \o ctrl_calls = snap

\* C2: when the console-control callback's thread and the main thread both
\* run _call_exit_funcs, only one of them invokes exit functions: no entry is
\* invoked by both.
C2_OneCallerDrains == Range(calls) \cap Range(ctrl_calls) = {}

\* C3: once a call of _call_exit_funcs has run to its end the registry is
\* empty, and a call that begins afterwards (atexit after the handler's
\* sys.exit, a second signal) invokes no exit function, provided no entry was
\* appended to the registry since.
C3_DrainIdempotent ==
  (cleared /\ ~late_regs) => (Registry = <<>> /\ late_calls = 0)

C3_Witness ==
  /\ pc = "terminated"
  /\ exit_how = "exit"
  /\ fin_by = "handler"
  /\ cleared
  /\ ~late_regs
  /\ Len(heap) = 3
  /\ Len(calls) = 2

\* C4: an exit function that raises, at whatever place in the list, stops
\* nothing: every later entry is still invoked, the exception does not leave
\* _call_exit_funcs, and the registry is cleared at the end.
C4_RaisingActionIsContained ==
  /\ ~propagated
  /\ (EndedCleanly /\ ntrig = 1) =>
       /\ Registry = <<>>
       /\ \A k \in 1..Len(snap) :
            snap[k].func \in Raising \cup Exiting =>
              \A j \in (k + 1)..Len(snap) : snap[j] \in Range(calls \o ctrl_calls)

\* C5: a call of unregister(func) by the program returns without raising,
\* and when it returns the registry is the one found at the call without the
\* entries of func (adjacent ones and ones with other arguments included),
\* every other entry in its place: with no entry of func, and with an empty
\* registry, it is as it was.
C5_UnregisterRemovesAll ==
  [][(pc = "run" /\ Len(stack) = 1 /\ InUnregister /\ stack' = <<>>) =>
       /\ last_call'.exc = "none"
       /\ Registry' = Keep(unreg.before, Top.func)]_vars

\* C6: _signal_handler calls sys.exit only after its call of
\* _call_exit_funcs has returned, with the registry empty, and with status 0;
\* the exit status of a process whose finalization the handler began is 0.
C6_DrainThenExitZero ==
  /\ hexit.called => (hexit.drained /\ hexit.empty /\ hexit.code = 0)
  /\ fin_by = "handler" => (hexit.called /\ exit_code = 0)

C6_Witness ==
  /\ pc = "terminated"
  /\ exit_how = "exit"
  /\ fin_by = "handler"
  /\ exit_code = 0
  /\ Len(calls) = 2

\* C7: a signal handled while _call_exit_funcs is running on the main thread
\* (called by atexit or by an earlier signal) invokes nothing: no entry is
\* invoked twice on the main thread.
C7_NestedTriggerIsNoOp == NoRepeat(calls)

\* C8: the process has called config without optional flags and then register
OnlyAlwaysOn ==
  /\ os_name = "posix"
  /\ _registered
  /\ handlers = {SIGINT, SIGTERM}
  /\ Registry # <<>>

\* C8 as claimed: register after config goes straight to its append and
\* leaves the installed handlers alone, and an optional signal delivered to
\* such a process invokes no exit function and does not end the process.
C8_OptionalSignalIgnored ==
  [][/\ \A func \in Funcs \cup Exiting :
          (_registered /\ register(func)) =>
            /\ stack' = <<RegisterFrame(func, ArgsOf(nreg + 1), 236)>>
            /\ UNCHANGED <<handlers, ctrl_handlers, _ctrl_handler>>
     /\ register_append => UNCHANGED <<handlers, ctrl_handlers, _ctrl_handler>>
     /\ \A sig \in {SIGQUIT, SIGHUP} :
          (OnlyAlwaysOn /\ Signal(sig)) =>
            (calls' = calls /\ ctrl_calls' = ctrl_calls /\ stack' = stack /\ pc' = pc)]_vars

\* C8 amended: register after config goes straight to its append and leaves
\* the installed handlers alone, and an optional signal delivered to such a
\* process invokes no exit function; the signal keeps its default action,
\* which ends the process at once.
C8_OptionalSignalDefault ==
  [][/\ \A func \in Funcs \cup Exiting :
          (_registered /\ register(func)) =>
            /\ stack' = <<RegisterFrame(func, ArgsOf(nreg + 1), 236)>>
            /\ UNCHANGED <<handlers, ctrl_handlers, _ctrl_handler>>
     /\ register_append => UNCHANGED <<handlers, ctrl_handlers, _ctrl_handler>>
     /\ \A sig \in {SIGQUIT, SIGHUP} :
          (OnlyAlwaysOn /\ Signal(sig)) =>
            /\ calls' = calls /\ ctrl_calls' = ctrl_calls /\ stack' = stack
            /\ pc' = "terminated" /\ exit_how' = "signal"]_vars

C8_Witness ==
  /\ os_name = "posix"
  /\ handlers = {SIGINT, SIGTERM}
  /\ Registry # <<>>
  /\ nsig = 1
  /\ exit_how = "signal"
  /\ calls = <<>>

\* C9: when proc.wait returns because the target is gone, safe_kill does not
\* call proc.kill, whatever force_kill and silence are; a target with one
\* registered entry that gets the default SIGTERM from safe_kill, and nothing
\* else, invokes the entry once and exits by itself.
C9_NoForceKillAfterExit ==
  /\ k_hist.waited = "returned" => ~k_hist.kill_called
  /\ (/\ k_hist.waited = "returned"
      /\ os_name = "posix" /\ k_args.sig = NoSignal /\ k_hist.req = "signal"
      /\ ntrig = 1 /\ Len(snap) = 1) =>
       (calls = snap /\ exit_how = "exit" /\ exit_code = 0)

C9_Witness ==
  /\ k_pc = "returned"
  /\ k_hist.waited = "returned"
  /\ k_args.force
  /\ os_name = "posix" /\ k_args.sig = NoSignal /\ k_hist.req = "signal"
  /\ ntrig = 1 /\ Len(snap) = 1
  /\ calls = snap
  /\ exit_how = "exit"

\* C10: with force_kill, the target is not alive when control leaves
\* safe_kill, by return or by exception, whatever silence is and whatever the
\* request and the wait did.
C10_ForceKillBeforeLeaving ==
  (k_pc \in {"returned", "raised"} /\ k_args.force) => ~Alive

C10_Witness ==
  /\ k_pc = "raised"
  /\ k_args.force
  /\ ~k_args.silence
  /\ k_exc.type = "TimeoutExpired"
  /\ exit_how = "killed"

\* C11: safe_kill on a process id that does not exist raises NoSuchProcess
\* only when silence is false: with silence true it returns without raising.
\* (NoSuchProcess before any request, wait or kill is the one that
\* psutil.Process(pid) raises.)
C11_SilenceHidesNoSuchProcess ==
  (/\ k_pc = "raised"
   /\ k_exc.type = "NoSuchProcess"
   /\ k_hist.req = "no"
   /\ ~k_hist.kill_called) => ~k_args.silence

\* C12: when control leaves safe_kill after its request step failed or its
\* wait timed out, an exception is raised to the caller if and only if
\* silence is false (with silence true safe_kill returns), and by then a
\* target that force_kill asked to kill is not alive.
C12_SilenceDecidesRaise ==
  (/\ k_pc \in {"returned", "raised"}
   /\ (k_hist.req = "failed" \/ k_hist.waited = "timeout")) =>
    /\ (k_pc = "raised") <=> ~k_args.silence
    /\ k_args.force => ~Alive

\* the decision table of the graceful request on nt: the branches gone
\* through and the request delivered, for kill_signal sig, a main window found
\* or not, and a console event generated or not
TableTried(sig, window) ==
  IF sig = NoSignal THEN (IF window THEN <<"window">> ELSE <<"window", "console">>)
  ELSE IF sig > CTRL_BREAK_EVENT THEN <<"window">>
  ELSE <<"console">>
TableSent(sig, window, event) ==
  IF sig = NoSignal
  THEN (IF window THEN "WM_CLOSE" ELSE IF event THEN "CTRL_C" ELSE "failed")
  ELSE IF sig > CTRL_BREAK_EVENT THEN (IF window THEN "WM_CLOSE" ELSE "failed")
  ELSE IF ~event THEN "failed"
  ELSE IF sig = CTRL_C_EVENT THEN "CTRL_C" ELSE "CTRL_BREAK"

\* C13: on nt the request step follows the decision table for every
\* kill_signal: with None the window close is tried first and the console
\* event (CTRL_C_EVENT) only when that failed; with a code above
\* CTRL_BREAK_EVENT only the window close; with CTRL_C_EVENT or
\* CTRL_BREAK_EVENT only the console event with that code.  The first branch
\* that succeeds ends the step with one request delivered; when every branch
\* tried fails, the step raises one SafeExitException with one message for
\* each branch tried.
C13_WinDecisionTable ==
  [][\A w, a, g \in BOOLEAN :
       RequestNt(w, a, g) =>
         /\ k_hist'.tried = TableTried(k_args.sig, w)
         /\ k_hist'.req = TableSent(k_args.sig, w, a /\ g)
         /\ IF k_hist'.req = "failed"
            THEN /\ k_pc' = "finally"
                 /\ k_exc'.type = "SafeExitException"
                 /\ Len(k_exc'.msgs) = Len(k_hist'.tried)
                 /\ UNCHANGED <<pc, stack, ctrl, ntrig>>
            ELSE /\ k_pc' = "wait"
                 /\ k_exc' = k_exc]_vars

C13_Witness ==
  /\ os_name = "nt"
  /\ k_args.sig = NoSignal
  /\ k_hist.tried = <<"window", "console">>
  /\ k_hist.req = "CTRL_C"
  /\ k_pc = "wait"
  /\ stack # <<>>

\* C14: in a process that has installed its console-control callback at most
\* once, a console event of a category that config selected makes the
\* callback run _call_exit_funcs, and the callback returns True only after
\* that call has run to its end; an event of any other category, and any
\* event when no callback is installed, invokes no exit function and leaves
\* the process to the default handler.
C14_CallbackHandlesSelected ==
  [][/\ \A ev \in CtrlEvents :
          (CtrlEvent(ev) /\ dangling = {}) =>
            IF \E events \in ctrl_handlers : ev \in events
            THEN /\ ctrl'.kind = "drain"
                 /\ ctrl'.lst = _exit_funcs
                 /\ ntrig' = ntrig + 1
                 /\ pc' = pc
            ELSE /\ ctrl' = ctrl
                 /\ ntrig' = ntrig
                 /\ calls' = calls /\ ctrl_calls' = ctrl_calls
                 /\ pc' = "terminated" /\ exit_how' = "default"
     /\ exit_how' = "ctrl" => cleared']_vars

C14_Witness ==
  /\ os_name = "nt"
  /\ dangling = {}
  /\ _ctrl_handler = [events |-> {CTRL_CLOSE_EVENT}, installed |-> TRUE]
  /\ Len(ctrl_calls) = 2
  /\ calls = <<>>
  /\ exit_how = "ctrl"

\* the optional flags, what each selects and the platform it is valid on
OptionalFlags ==
  { [flag |-> "SIGQUIT", os |-> "posix", signal |-> SIGQUIT, event |-> -1],
    [flag |-> "SIGHUP", os |-> "posix", signal |-> SIGHUP, event |-> -1],
    [flag |-> "SIGBREAK", os |-> "nt", signal |-> SIGBREAK, event |-> -1],
    [flag |-> "CTRL_CLOSE", os |-> "nt", signal |-> -1, event |-> CTRL_CLOSE_EVENT],
    [flag |-> "CTRL_LOGOFF", os |-> "nt", signal |-> -1, event |-> CTRL_LOGOFF_EVENT],
    [flag |-> "CTRL_SHUTDOWN", os |-> "nt", signal |-> -1, event |-> CTRL_SHUTDOWN_EVENT] }
Selected(os, flag) == {o \in OptionalFlags : o.flag \in flag /\ o.os = os}
ExpectedSignals(os, flag) ==
  {SIGINT, SIGTERM} \cup ({o.signal : o \in Selected(os, flag)} \ {-1})
ExpectedEvents(os, flag) == {o.event : o \in Selected(os, flag)} \ {-1}

\* the main thread takes a step of a call of config: the call by the program,
\* or a line of config, _register_signals or _register_ctrl_handler
ConfigStep ==
  \/ \E flag \in ConfigInputs : config(flag)
  \/ ConfigSteps(BOOLEAN)
  \/ ConsoleSteps(BOOLEAN)
\* the flags of the call of the program that is over
FlagsOf(call) == IF call.op = "config" THEN call.flag ELSE DEFAULT_CONFIG

\* C15 as claimed: the flag _registered is never reset, and once it is true a
\* call of config changes neither the installed signal handlers, nor the
\* installed console handlers, nor the registry.
C15_FirstConfigurationWins ==
  [][/\ _registered => _registered'
     /\ (_registered /\ ConfigStep) =>
          UNCHANGED <<handlers, ctrl_handlers, _ctrl_handler, heap, _exit_funcs>>]_vars

\* C15 amended: the flag _registered starts false, is set by the first call
\* of config that returns, made by the program or by register, and is never
\* reset; once it is true register calls config no more.  No step of config
\* changes the registry or removes an installed handler, and a call of
\* config that returns has installed the handlers its flags select whether
\* the flag was true or not: the selected signals are handled, and on nt a
\* console handler for the selected events is installed in addition to the
\* earlier ones.
C15_ConfigAgainInstalls ==
  [][/\ _registered => _registered'
     /\ \A func \in Funcs :
          (_registered /\ register(func)) =>
            stack' = <<RegisterFrame(func, ArgsOf(nreg + 1), 236)>>
     /\ ConfigStep =>
          /\ UNCHANGED <<heap, _exit_funcs>>
          /\ handlers \subseteq handlers'
          /\ ctrl_handlers \subseteq ctrl_handlers'
     /\ (last_call'.op = "config" /\ last_call'.exc = "none") =>
          /\ _registered'
          /\ ExpectedSignals(os_name, last_call'.flag) \subseteq handlers'
          /\ ExpectedEvents(os_name, last_call'.flag) # {} =>
               /\ _ctrl_handler'.installed
               /\ _ctrl_handler'.events = ExpectedEvents(os_name, last_call'.flag)
               /\ _ctrl_handler'.events \in ctrl_handlers']_vars

C15_Witness ==
  /\ os_name = "nt"
  /\ last_call = ApiCall("config",
                         {"CTRL_CLOSE", "AUTO_CREATE_CONSOLE", "FORCE_HIDE_CONSOLE"},
                         "none", 0, "none")
  /\ Registry # <<>>
  /\ Cardinality(ctrl_handlers) = 2
  /\ _ctrl_handler = [events |-> {CTRL_CLOSE_EVENT}, installed |-> TRUE]
  /\ dangling # {}

\* C16: every call of signal.signal and of SetConsoleCtrlHandler that
\* config(flag) makes is for SIGINT, SIGTERM, or the signal or the events of
\* optional flags that are in flag and valid on the platform, so that a flag
\* of the other platform installs nothing; and when config(flag) returns,
\* SIGINT, SIGTERM and every such signal are handled, and on nt the console
\* handler covers exactly the selected events, none being installed when
\* none is selected.  A flag of the other platform makes no call fail: config
\* raises on nt only, where AUTO_CREATE_CONSOLE finds no console to open
\* (line 218) or the console handler for the selected events is refused (line
\* 86).  The default configuration installs every optional handler of the
\* platform.
C16_ConfigInstallsValidFlags ==
  [][/\ (ConfigSteps(BOOLEAN) \/ ConsoleSteps(BOOLEAN)) =>
          /\ handlers \subseteq handlers'
          /\ handlers' \subseteq handlers \cup ExpectedSignals(os_name, Top.flag)
          /\ ctrl_handlers' \subseteq
               ctrl_handlers \cup ({ExpectedEvents(os_name, Top.flag)} \ {{}})
          /\ ExpectedEvents(os_name, Top.flag) = {} => UNCHANGED _ctrl_handler
     /\ config_return =>
          /\ _registered'
          /\ handlers' = handlers
          /\ ExpectedSignals(os_name, Top.flag) \subseteq handlers
          /\ ExpectedEvents(os_name, Top.flag) # {} =>
               _ctrl_handler = [events |-> ExpectedEvents(os_name, Top.flag),
                                installed |-> TRUE]
     /\ (last_call'.op \in {"config", "register"} /\ last_call'.exc # "none") =>
          /\ os_name = "nt"
          /\ last_call'.exc = "OSError"
          /\ \/ /\ last_call'.line = 218
                /\ "AUTO_CREATE_CONSOLE" \in FlagsOf(last_call')
             \/ /\ last_call'.line = 86
                /\ ExpectedEvents("nt", FlagsOf(last_call')) # {}]_vars

C16_Witness ==
  /\ os_name = "posix"
  /\ last_call = ApiCall("config", DEFAULT_CONFIG, "none", 0, "none")
  /\ handlers = {SIGINT, SIGTERM, SIGQUIT, SIGHUP}
  /\ ctrl_handlers = {}
  /\ _ctrl_handler = NoHandler
  /\ _registered

\* C17: register calls config(DEFAULT_CONFIG) exactly when the flag
\* _registered is false, and appends only after that call has returned: a
\* registry that is not empty goes with a true flag and with handlers for
\* SIGINT and SIGTERM.  The append adds one entry, the callable with its
\* arguments, at the end of the registry, and register returns the callable
\* it was given.
C17_RegisterInstallsThenAppends ==
  [][/\ Registry' # <<>> => (_registered' /\ {SIGINT, SIGTERM} \subseteq handlers')
     /\ \A func \in Funcs :
          register(func) =>
            /\ UNCHANGED <<_registered, handlers, ctrl_handlers, _ctrl_handler,
                           heap, _exit_funcs>>
            /\ stack' = IF _registered
                        THEN <<RegisterFrame(func, ArgsOf(nreg + 1), 236)>>
                        ELSE <<RegisterFrame(func, ArgsOf(nreg + 1), 235),
                               ConfigFrame(DEFAULT_CONFIG,
                                           IF os_name = "nt" THEN 213 ELSE 97)>>
     /\ (stack # <<>> /\ Top.kind = "register" /\ stack' # stack) =>
          /\ Top.line = 236
          /\ _registered
          /\ Top.args = ArgsOf(nreg)
          /\ UNCHANGED <<handlers, ctrl_handlers, _ctrl_handler, _exit_funcs>>
          /\ Registry' = Append(Registry, [func |-> Top.func, args |-> Top.args])
          /\ stack' = <<>>
          /\ last_call' = ApiCall("register", {}, "none", 0, Top.func)]_vars

C17_Witness ==
  /\ os_name = "nt"
  /\ last_call = ApiCall("register", {}, "none", 0, "g")
  /\ nreg = 2
  /\ Registry = <<[func |-> "f", args |-> ArgsOf(1)], [func |-> "g", args |-> ArgsOf(2)]>>
  /\ handlers = {SIGINT, SIGTERM, SIGBREAK}
  /\ ctrl_handlers = {CtrlEvents}

\* C18 as claimed: after a call of config or register that raised because
\* the console handler was refused, the flag _registered is false.
C18_InstallFailurePropagates ==
  (last_call.exc = "OSError" /\ last_call.line = 86) => ~_registered

\* C18 amended: when SetConsoleCtrlHandler refuses the console handler, the
\* call of config, or the call of register that called config, raises at
\* once to the program; the refused call leaves the registry, the installed
\* console handlers and the flag _registered as they are, so that after a
\* refused register the entry is not in the registry and the flag, false
\* when register called config, is still false.  The flag turns true only at
\* the end of a call of config that installed every handler it selected.
C18_RefusalLeavesFlag ==
  [][/\ SetConsoleCtrlHandler(FALSE) =>
          /\ stack' = <<>>
          /\ last_call' = ApiCall(stack[1].kind, stack[1].flag, "OSError", 86, "none")
          /\ UNCHANGED <<_registered, handlers, ctrl_handlers, heap, _exit_funcs>>
          /\ stack[1].kind = "register" =>
               /\ ~_registered'
               /\ [func |-> stack[1].func, args |-> stack[1].args]
                    \notin Range(Registry')
     /\ (~_registered /\ _registered') =>
          /\ stack # <<>> /\ Top.kind = "config" /\ Top.line = 115
          /\ ExpectedSignals(os_name, Top.flag) \subseteq handlers'
          /\ ExpectedEvents(os_name, Top.flag) # {} =>
               _ctrl_handler' = [events |-> ExpectedEvents(os_name, Top.flag),
                                 installed |-> TRUE]]_vars

C18_Witness ==
  /\ os_name = "nt"
  /\ last_call = ApiCall("register", {}, "OSError", 86, "none")
  /\ ~_registered
  /\ Registry = <<>>
  /\ nreg = 1
  /\ handlers = {SIGINT, SIGTERM, SIGBREAK}
  /\ _ctrl_handler = [events |-> CtrlEvents, installed |-> FALSE]

\* the callables that an exit function among those registered at the trigger
\* unregisters
Unregistered ==
  {"u"} \cup (IF \E k \in 1..Len(snap) : snap[k].func = "v" THEN {"f"} ELSE {})
Times(e, s) == Cardinality({i \in 1..Len(s) : s[i] = e})

\* C19: exit functions that call unregister or register while the registry
\* is drained do not disturb the drain: every entry registered when the drain
\* began, of a callable that no exit function unregisters, is invoked once,
\* and the registry is empty when the process has ended.
C19_MutationDuringDrain ==
  (EndedCleanly /\ ntrig = 1) =>
    /\ Registry = <<>>
    /\ \A k \in 1..Len(snap) :
         snap[k].func \notin Unregistered => Times(snap[k], calls \o ctrl_calls) = 1

\* C20: safe_kill requests, then waits, then kills, and it waits only after
\* a request that was issued without failure: when the request step fails
\* there is no wait, the finally clause follows at once, and a live target
\* is killed when force_kill is true.
C20_NoWaitAfterFailedRequest ==
  /\ k_hist.waited # "no" => k_hist.req \notin {"no", "failed"}
  /\ k_hist.kill_called => k_hist.req # "no"
  /\ (k_hist.kill_called /\ k_hist.req # "failed") => k_hist.waited = "timeout"
  /\ (k_hist.req = "failed" /\ k_pc \in {"returned", "raised"}) =>
       /\ k_hist.waited = "no"
       /\ k_args.force => ~Alive
  /\ exit_how = "killed" => k_hist.kill_called

C20_Witness ==
  /\ os_name = "nt"
  /\ k_hist.req = "failed"
  /\ k_hist.tried = <<"window", "console">>
  /\ k_hist.waited = "no"
  /\ k_hist.kill_called
  /\ exit_how = "killed"
  /\ k_pc = "returned"

====
